---- MODULE Spec2Model ----
(***************************************************************************)
(* Recurring-transaction processing of cash.coach (server/storage.ts and   *)
(* the /recurring-transactions routes): the two storage backends           *)
(* MemStorage and DatabaseStorage, their date helpers, and the routes that *)
(* create, edit and process recurring rules.                               *)
(*                                                                         *)
(* Time.  A JavaScript Date is modelled as an integer number of ticks      *)
(* since local midnight of Monday 2024-01-01 (day 0).  A day has           *)
(* TicksPerDay ticks, so a Date keeps a time of day, as in the code, where *)
(* every comparison of two Dates compares milliseconds.  The local time    *)
(* zone has no daylight-saving shift.                                      *)
(***************************************************************************)
EXTENDS Integers, Sequences, FiniteSets

VARIABLES
  backend,   \* which IStorage implementation the routes use: "mem" or "db"
  clock,     \* the latest wall-clock reading (new Date()) taken by a run
  rules,     \* the recurringTransactions store: rule id -> row (ids are 1..Len)
  txns,      \* the transactions store in id order; "rule" is provenance (0: plain)
  ret,       \* what the latest processRecurringTransactions call returned
  runs,      \* number of processRecurringTransactions calls so far
  last,      \* the operation that produced this state
  resumed,   \* rules re-activated (isActive false -> true) and not yet processed since
  call,      \* the latest direct call of a date helper (helper specifications)
  procs,     \* the DatabaseStorage.processRecurringTransactions invocations in progress
  interrupted, \* <<rule, run date, runs started so far>> of runs that failed after
             \* creating some but not all of the rule's transactions, the rule's
             \* lastGeneratedDate not yet advanced
  response   \* the HTTP status of the latest response of a route (0: none yet)

vars ==
  <<backend, clock, rules, txns, ret, runs, last, resumed, call, procs, interrupted, response>>

(***************************************************************************)
(* Bounds of the model.                                                    *)
(***************************************************************************)
TicksPerDay == 2      \* resolution of the time of day
FirstDay == 28        \* the model's window opens on Monday 2024-01-29 ...
Horizon == 35         \* ... and spans this many days (to Monday 2024-03-04)
MaxRules == 1         \* rules created through POST /transactions
MaxRuns == 2          \* processRecurringTransactions calls
MaxCustomDays == 3    \* largest customDays a request carries
EditHorizon == 16     \* days spanned by the runs of the specification with edits
MaxCalDay == 120      \* last day of the helper specifications (2024-04-30)
MaxHelperDay == 17    \* last day of the weekly and custom helper calls (2024-01-18)
MaxInterval == 5      \* largest interval of a direct getCustomDates call
MaxProcs == 2         \* requests to the process endpoint that may overlap
MaxStepRules == 2     \* rules of the specifications with interleaved runs
StepHorizon == 3      \* days spanned by the runs of those specifications
LoopHorizon == 10     \* days spanned by the runs of the specifications of the loops

Null == -1            \* a nullable column holding NULL / a field left undefined

(***************************************************************************)
(* Calendar: what the JavaScript Date methods used by storage.ts compute.  *)
(***************************************************************************)
Min(a, b) == IF a <= b THEN a ELSE b

Day(t) == t \div TicksPerDay
Tod(t) == t % TicksPerDay
MkDate(d, tod) == d * TicksPerDay + tod

\* current.setDate(current.getDate() + n): n days later, same time of day
AddDays(t, n) == t + n * TicksPerDay

IsLeap(y) == (y % 4 = 0 /\ y % 100 # 0) \/ y % 400 = 0

\* Months are numbered from January 2024 = 0 (year * 12 + getMonth()).
\* new Date(y, m + 1, 0).getDate(): the number of days of month M
DaysInMonth(M) ==
  IF M % 12 = 1 THEN (IF IsLeap(2024 + (M \div 12)) THEN 29 ELSE 28)
  ELSE IF (M % 12) \in {3, 5, 8, 10} THEN 30 ELSE 31

RECURSIVE MonthStartFrom(_)
MonthStartFrom(M) == IF M = 0 THEN 0 ELSE MonthStartFrom(M - 1) + DaysInMonth(M - 1)

\* the day number of the first day of each month (two years from January 2024)
MonthStarts == [M \in 0..24 |-> MonthStartFrom(M)]
MonthStart(M) == MonthStarts[M]

RECURSIVE MonthFrom(_, _)
MonthFrom(d, M) == IF d < MonthStart(M + 1) THEN M ELSE MonthFrom(d, M + 1)

\* the month of each day (to the end of 2024)
MonthOfDay == [d \in 0..365 |-> MonthFrom(d, 0)]

\* getFullYear() * 12 + getMonth(), from January 2024
getMonth(t) == MonthOfDay[Day(t)]
\* getDate(): the day of the month, 1..31
getDate(t) == Day(t) - MonthStart(getMonth(t)) + 1
\* getDay(): 0 = Sunday .. 6 = Saturday; day 0 is a Monday
getDay(t) == (Day(t) + 1) % 7

\* new Date(year, month, day): local midnight; a day past the end of the
\* month rolls over into the following month
NewDate(M, d) == MkDate(MonthStart(M) + d - 1, 0)

\* current.setMonth(current.getMonth() + 1): same day number and time of
\* day in the next month, rolling over when that month is shorter
SetMonthNext(t) == MkDate(MonthStart(getMonth(t) + 1) + getDate(t) - 1, Tod(t))

\* current.setDate(1)
SetDateFirst(t) == MkDate(MonthStart(getMonth(t)), Tod(t))

\* isSameDay(date1, date2)
isSameDay(date1, date2) == Day(date1) = Day(date2)

\* getDaysDifference(date1, date2): Math.ceil(|date2 - date1| / one day)
getDaysDifference(date1, date2) ==
  LET diffTime == IF date2 >= date1 THEN date2 - date1 ELSE date1 - date2
  IN (diffTime + TicksPerDay - 1) \div TicksPerDay

RECURSIVE MaxOf(_)
\* Math.max(...dates.map(d => d.getTime())), of a non-empty list
MaxOf(dates) ==
  IF Len(dates) = 1 THEN dates[1]
  ELSE LET m == MaxOf(Tail(dates)) IN IF dates[1] >= m THEN dates[1] ELSE m

(***************************************************************************)
(* MemStorage date helpers (storage.ts 401-456).                           *)
(***************************************************************************)
RECURSIVE MemWeeklyLoop(_, _, _, _, _)
\* while (current <= endDate) { if (...) dates.push(current); current += 1 day }
MemWeeklyLoop(current, startDate, endDate, dayOfWeek, dates) ==
  IF current <= endDate
  THEN MemWeeklyLoop(AddDays(current, 1), startDate, endDate, dayOfWeek,
         IF getDay(current) = dayOfWeek /\ current > startDate
         THEN Append(dates, current) ELSE dates)
  ELSE dates

MemGetWeeklyDates(startDate, endDate, dayOfWeek) ==
  MemWeeklyLoop(startDate, startDate, endDate, dayOfWeek, <<>>)

\* the target date of current's month, kept when it lies in (startDate, endDate]
MemMonthlyTarget(current, startDate, endDate, dayOfMonth) ==
  LET daysInMonth == DaysInMonth(getMonth(current))
      targetDay == Min(dayOfMonth, daysInMonth)
      targetDate == NewDate(getMonth(current), targetDay)
  IN IF targetDate > startDate /\ targetDate <= endDate THEN <<targetDate>> ELSE <<>>

\* current.setMonth(current.getMonth() + 1); current.setDate(1)
MemMonthlyAdvance(current) == SetDateFirst(SetMonthNext(current))

RECURSIVE MemMonthlyLoop(_, _, _, _, _)
MemMonthlyLoop(current, startDate, endDate, dayOfMonth, dates) ==
  IF current <= endDate
  THEN MemMonthlyLoop(MemMonthlyAdvance(current), startDate, endDate, dayOfMonth,
         dates \o MemMonthlyTarget(current, startDate, endDate, dayOfMonth))
  ELSE dates

\* "Move to the next month to avoid processing the start month"
MemMonthlyFirst(startDate) == SetMonthNext(startDate)

MemGetMonthlyDates(startDate, endDate, dayOfMonth) ==
  MemMonthlyLoop(MemMonthlyFirst(startDate), startDate, endDate, dayOfMonth, <<>>)

RECURSIVE MemCustomLoop(_, _, _, _)
MemCustomLoop(current, endDate, days, dates) ==
  IF current <= endDate
  THEN MemCustomLoop(AddDays(current, days), endDate, days, Append(dates, current))
  ELSE dates

\* a loop that starts on the lower bound itself
MemGetCustomDatesFromStart(startDate, endDate, days) ==
  MemCustomLoop(startDate, endDate, days, <<>>)

MemGetCustomDates(startDate, endDate, days) ==
  MemCustomLoop(AddDays(startDate, days), endDate, days, <<>>)

(***************************************************************************)
(* DatabaseStorage date helpers (storage.ts 778-846).                      *)
(***************************************************************************)
RECURSIVE DbWeeklyAdjust(_, _)
\* while (currentDate.getDay() !== targetDayOfWeek) currentDate += 1 day
DbWeeklyAdjust(currentDate, targetDayOfWeek) ==
  IF getDay(currentDate) # targetDayOfWeek
  THEN DbWeeklyAdjust(AddDays(currentDate, 1), targetDayOfWeek)
  ELSE currentDate

\* if (currentDate < startDate) currentDate += 7 days
DbWeeklyFirst(startDate, targetDayOfWeek) ==
  LET currentDate == DbWeeklyAdjust(startDate, targetDayOfWeek)
  IN IF currentDate < startDate THEN AddDays(currentDate, 7) ELSE currentDate

RECURSIVE DbWeeklyLoop(_, _, _)
DbWeeklyLoop(currentDate, endDate, dates) ==
  IF currentDate <= endDate
  THEN DbWeeklyLoop(AddDays(currentDate, 7), endDate, Append(dates, currentDate))
  ELSE dates

DbGetWeeklyDates(startDate, endDate, dayOfWeek) ==
  LET targetDayOfWeek == IF dayOfWeek # Null THEN dayOfWeek ELSE getDay(startDate)
  IN DbWeeklyLoop(DbWeeklyFirst(startDate, targetDayOfWeek), endDate, <<>>)

\* the occurrence of currentDate's month, kept when it lies in (startDate, endDate]
DbMonthlyOccurrence(currentDate, startDate, endDate, dayOfMonth) ==
  LET daysInMonth == DaysInMonth(getMonth(currentDate))
      actualDay == Min(dayOfMonth, daysInMonth)
      occurrenceDate == NewDate(getMonth(currentDate), actualDay)
  IN IF occurrenceDate <= endDate /\ occurrenceDate > startDate
     THEN <<occurrenceDate>> ELSE <<>>

RECURSIVE DbMonthlyLoop(_, _, _, _, _)
DbMonthlyLoop(currentDate, startDate, endDate, dayOfMonth, dates) ==
  IF currentDate <= endDate
  THEN DbMonthlyLoop(SetMonthNext(currentDate), startDate, endDate, dayOfMonth,
         dates \o DbMonthlyOccurrence(currentDate, startDate, endDate, dayOfMonth))
  ELSE dates

\* the first of startDate's month, or of the next month when that is before startDate
DbMonthlyFirst(startDate) ==
  LET currentDate == NewDate(getMonth(startDate), 1)
  IN IF currentDate < startDate THEN SetMonthNext(currentDate) ELSE currentDate

DbGetMonthlyDates(startDate, endDate, dayOfMonth) ==
  DbMonthlyLoop(DbMonthlyFirst(startDate), startDate, endDate, dayOfMonth, <<>>)

RECURSIVE DbCustomLoop(_, _, _, _)
DbCustomLoop(currentDate, endDate, days, dates) ==
  IF currentDate <= endDate
  THEN DbCustomLoop(AddDays(currentDate, days), endDate, days, Append(dates, currentDate))
  ELSE dates

DbGetCustomDates(startDate, endDate, days) ==
  DbCustomLoop(AddDays(startDate, days), endDate, days, <<>>)


(***************************************************************************)
(* processRecurringTransactions, per rule and as a whole run.              *)
(***************************************************************************)
\* JavaScript truthiness of a nullable number: null and 0 are falsy
Truthy(n) == n # Null /\ n # 0

\* rt.lastGeneratedDate ? new Date(rt.lastGeneratedDate) : new Date(rt.startDate)
LastGenDate(rt) ==
  IF rt.lastGeneratedDate # Null THEN rt.lastGeneratedDate ELSE rt.startDate

\* MemStorage: the switch on rt.frequency
MemDatesToProcess(rt, now) ==
  LET lastGenDate == LastGenDate(rt) IN
  CASE rt.frequency = "daily" -> MemGetCustomDates(lastGenDate, now, 1)
    [] rt.frequency = "weekly" ->
         MemGetWeeklyDates(lastGenDate, now,
                           IF Truthy(rt.dayOfWeek) THEN rt.dayOfWeek ELSE 1)
    [] rt.frequency = "monthly" ->
         MemGetMonthlyDates(lastGenDate, now,
                            IF Truthy(rt.dayOfMonth) THEN rt.dayOfMonth ELSE 1)
    [] rt.frequency = "custom" ->
         IF Truthy(rt.customDays)
         THEN MemGetCustomDates(lastGenDate, now, rt.customDays) ELSE <<>>
    [] OTHER -> <<>>

\* the filter without its endDate test
MemKeepDateNoEnd(rt, now, date) == date <= now

\* MemStorage: "Filter out future dates and dates after endDate"
MemKeepDate(rt, now, date) ==
  date <= now /\ (rt.endDate = Null \/ date <= rt.endDate)

MemValidDates(rt, now) ==
  SelectSeq(MemDatesToProcess(rt, now), LAMBDA date: MemKeepDate(rt, now, date))

\* a loop that lacks the isActive test
MemSkipsNone(rt) == FALSE

\* MemStorage: if (!rt.isActive) continue
MemSkipsRule(rt) == ~rt.isActive

\* the dates a MemStorage run at now materializes for rule rt
MemRuleDates(rt, now) == IF MemSkipsRule(rt) THEN <<>> ELSE MemValidDates(rt, now)

\* DatabaseStorage: the switch on recurTrans.frequency; a "continue" leaves
\* the rule with nothing to create and no watermark update
DbNextDates(recurTrans, currentDate) ==
  LET lastGenDate == LastGenDate(recurTrans) IN
  CASE recurTrans.frequency = "daily" ->
         IF isSameDay(lastGenDate, currentDate) THEN <<>> ELSE <<currentDate>>
    [] recurTrans.frequency = "weekly" ->
         IF getDaysDifference(lastGenDate, currentDate) < 7 THEN <<>>
         ELSE DbGetWeeklyDates(lastGenDate, currentDate, recurTrans.dayOfWeek)
    [] recurTrans.frequency = "monthly" ->
         IF getMonth(lastGenDate) = getMonth(currentDate) THEN <<>>
         ELSE DbGetMonthlyDates(lastGenDate, currentDate,
                IF Truthy(recurTrans.dayOfMonth) THEN recurTrans.dayOfMonth
                ELSE getDate(lastGenDate))
    [] recurTrans.frequency = "custom" ->
         IF ~Truthy(recurTrans.customDays) THEN <<>>
         ELSE IF getDaysDifference(lastGenDate, currentDate) < recurTrans.customDays
              THEN <<>>
              ELSE DbGetCustomDates(lastGenDate, currentDate, recurTrans.customDays)
    [] OTHER -> <<>>

\* DatabaseStorage: "Filter out dates beyond the end date if one exists"
DbKeepDate(recurTrans, date) == recurTrans.endDate = Null \/ date <= recurTrans.endDate

DbFilteredDates(recurTrans, currentDate) ==
  SelectSeq(DbNextDates(recurTrans, currentDate),
            LAMBDA date: DbKeepDate(recurTrans, date))

\* DatabaseStorage: .where(eq(recurringTransactions.isActive, true))
DbSelectsRule(recurTrans) == recurTrans.isActive

\* the dates a DatabaseStorage run at currentDate materializes for the rule
DbRuleDates(recurTrans, currentDate) ==
  IF DbSelectsRule(recurTrans) THEN DbFilteredDates(recurTrans, currentDate) ELSE <<>>

\* the dates a run of backend b at now materializes for rule rt
RuleDates(b, rt, now) == IF b = "mem" THEN MemRuleDates(rt, now) ELSE DbRuleDates(rt, now)

\* Notes are sequences of words; a rule without notes (null) has none.
NoNotes == <<>>
RecurringMarker == "(Recurring)"

\* MemStorage: notes: rt.notes
MemTransactionNotes(rt) == rt.notes

\* DatabaseStorage: recurTrans.notes ? `${recurTrans.notes} (Recurring)` : '(Recurring)'
DbTransactionNotes(recurTrans) ==
  IF recurTrans.notes # NoNotes
  THEN Append(recurTrans.notes, RecurringMarker) ELSE <<RecurringMarker>>

\* a run that files each transaction under the first user and with no category
NewTransactionsUnderFirstUser(b, id, rt, dates) ==
  [j \in 1..Len(dates) |->
     [rule |-> id, userId |-> "ann", description |-> rt.description,
      amount |-> rt.amount, date |-> dates[j], categoryId |-> Null,
      currency |-> rt.currency,
      notes |-> IF b = "mem" THEN MemTransactionNotes(rt) ELSE DbTransactionNotes(rt)]]

\* createTransaction by backend b for each date of rule rt (rule id), in order
NewTransactions(b, id, rt, dates) ==
  [j \in 1..Len(dates) |->
     [rule |-> id, userId |-> rt.userId, description |-> rt.description,
      amount |-> rt.amount, date |-> dates[j], categoryId |-> rt.categoryId,
      currency |-> rt.currency,
      notes |-> IF b = "mem" THEN MemTransactionNotes(rt) ELSE DbTransactionNotes(rt)]]

\* an update that takes the first created date
UpdateWatermarkFirst(rt, dates) == [rt EXCEPT !.lastGeneratedDate = dates[1]]

\* "Update last generated date": the maximum of the created dates
UpdateWatermark(rt, dates) == [rt EXCEPT !.lastGeneratedDate = MaxOf(dates)]

RECURSIVE RunFrom(_, _, _, _, _, _)
\* a loop body that counts the rules it generated for, not the transactions
RunRuleCountsRules(b, i, rs, ts, count, now, dates) ==
  IF Len(dates) > 0
  THEN RunFrom(b, i + 1, [rs EXCEPT ![i] = UpdateWatermark(rs[i], dates)],
               ts \o NewTransactions(b, i, rs[i], dates), count + 1, now)
  ELSE RunFrom(b, i + 1, rs, ts, count, now)

\* the body of the loop for rule i, given the dates to materialize for it
RunRule(b, i, rs, ts, count, now, dates) ==
  IF Len(dates) > 0
  THEN RunFrom(b, i + 1, [rs EXCEPT ![i] = UpdateWatermark(rs[i], dates)],
               ts \o NewTransactions(b, i, rs[i], dates), count + Len(dates), now)
  ELSE RunFrom(b, i + 1, rs, ts, count, now)

\* the loop over the rules, from rule i on, with the stores and count so far
RunFrom(b, i, rs, ts, count, now) ==
  IF i > Len(rs) THEN [rules |-> rs, txns |-> ts, count |-> count]
  ELSE RunRule(b, i, rs, ts, count, now, RuleDates(b, rs[i], now))

\* one whole processRecurringTransactions call of backend b at time now
Run(b, rs, ts, now) == RunFrom(b, 1, rs, ts, 0, now)

(***************************************************************************)
(* Inputs of the requests.                                                 *)
(***************************************************************************)
FirstClock == MkDate(FirstDay, 0)
LastClock == MkDate(FirstDay + Horizon, TicksPerDay - 1)

Frequencies == {"daily", "weekly", "monthly", "custom"}
\* Monday 2024-01-29 at midnight, Wednesday 2024-01-31 late, Wednesday 2024-02-07
StartDates == {MkDate(FirstDay, 0), MkDate(FirstDay + 2, TicksPerDay - 1),
               MkDate(FirstDay + 9, 0)}
EndDates == {Null, MkDate(FirstDay + 16, 0)}
DaysOfWeek == 0..6
\* the 1st, a mid-month day and the days that short months clamp
DaysOfMonth == {1, 14, 29, 30, 31}
CustomDays == 1..MaxCustomDays

\* the recurrence parameters a request carries for each frequency
RuleParams ==
  [frequency: {"daily"}, dayOfWeek: {Null}, dayOfMonth: {Null}, customDays: {Null}]
  \cup [frequency: {"weekly"}, dayOfWeek: DaysOfWeek \cup {Null},
        dayOfMonth: {Null}, customDays: {Null}]
  \cup [frequency: {"monthly"}, dayOfWeek: {Null},
        dayOfMonth: DaysOfMonth \cup {Null}, customDays: {Null}]
  \cup [frequency: {"custom"}, dayOfWeek: {Null}, dayOfMonth: {Null},
        customDays: CustomDays \cup {Null}]

(***************************************************************************)
(* The state machine.                                                      *)
(***************************************************************************)
\* the requests to POST /recurring-transactions/process that may be in progress
Procs == 1..MaxProcs

\* no processRecurringTransactions invocation in progress for this request
Idle == [pc |-> "idle", run |-> 0, currentDate |-> 0, all |-> <<>>, i |-> 0,
         created |-> 0, generatedCount |-> 0]

Init ==
  /\ backend \in {"mem", "db"}
  /\ clock = FirstClock
  /\ rules = <<>>
  /\ txns = <<>>
  /\ ret = 0
  /\ runs = 0
  /\ last = "init"
  /\ resumed = {}
  /\ call = <<>>
  /\ procs = [p \in Procs |-> Idle]
  /\ interrupted = {}
  /\ response = 0

\* the authenticated users
Users == {"ann", "bob"}

\* the transaction fields of a request body (rawTransactionData)
TransactionOn(date, notes) ==
  [description |-> "rent", amount |-> 900, date |-> date, categoryId |-> 1,
   currency |-> "USD", notes |-> notes]

\* createRecurringTransaction: isActive true, lastGeneratedDate null
NewRule(userId, transactionData, endDate, p) ==
  [userId |-> userId, description |-> transactionData.description,
   amount |-> transactionData.amount, categoryId |-> transactionData.categoryId,
   currency |-> transactionData.currency, notes |-> transactionData.notes,
   frequency |-> p.frequency, startDate |-> transactionData.date, endDate |-> endDate,
   dayOfWeek |-> p.dayOfWeek, dayOfMonth |-> p.dayOfMonth,
   customDays |-> p.customDays, lastGeneratedDate |-> Null, isActive |-> TRUE]

\* POST /transactions by userId with isRecurring and a frequency: the plain
\* transaction, then the rule starting at its date
PostTransaction(userId, transactionData, endDate, p) ==
  /\ txns' = Append(txns, [rule |-> 0, userId |-> userId,
                           description |-> transactionData.description,
                           amount |-> transactionData.amount,
                           date |-> transactionData.date,
                           categoryId |-> transactionData.categoryId,
                           currency |-> transactionData.currency,
                           notes |-> transactionData.notes])
  /\ rules' = Append(rules, NewRule(userId, transactionData, endDate, p))
  /\ last' = "create"
  /\ response' = 201
  /\ UNCHANGED <<backend, clock, ret, runs, resumed, call, procs, interrupted>>

\* POST /recurring-transactions/process: storage.processRecurringTransactions()
\* reading the wall clock as now
ProcessRecurringTransactions(b, now) ==
  /\ \E r \in {Run(b, rules, txns, now)} :
       /\ rules' = r.rules
       /\ txns' = r.txns
       /\ ret' = r.count
  /\ clock' = now
  /\ runs' = runs + 1
  /\ last' = "process"
  /\ resumed' = {}
  /\ response' = 200
  /\ UNCHANGED <<backend, call, procs, interrupted>>

MemProcessRecurringTransactions ==
  /\ backend = "mem" /\ runs < MaxRuns
  /\ \E now \in clock..LastClock : ProcessRecurringTransactions("mem", now)

DbProcessRecurringTransactions ==
  /\ backend = "db" /\ runs < MaxRuns
  /\ \E now \in clock..LastClock : ProcessRecurringTransactions("db", now)

\* PUT /recurring-transactions/:id copies these fields of the request body
PutFields ==
  {"description", "amount", "categoryId", "currency", "notes",
   "frequency", "endDate", "dayOfWeek", "dayOfMonth", "customDays", "isActive"}

\* the value the route stores for field f of the body
PutValue(body, f) ==
  IF f = "endDate" THEN (IF body[f] # Null THEN body[f] ELSE Null) ELSE body[f]

\* a route that passes the whole request body to updateRecurringTransaction
ApplyPutAll(rt, body) ==
  [f \in DOMAIN rt |-> IF f \in DOMAIN body THEN PutValue(body, f) ELSE rt[f]]

\* updatedData applied by updateRecurringTransaction: { ...existing, ...data }
ApplyPut(rt, body) ==
  [f \in DOMAIN rt |->
     IF f \in PutFields /\ f \in DOMAIN body THEN PutValue(body, f) ELSE rt[f]]

\* PUT /recurring-transactions/:id by the rule's owner
PutRecurringTransaction(id, body) ==
  /\ id \in DOMAIN rules
  /\ rules' = [rules EXCEPT ![id] = ApplyPut(rules[id], body)]
  /\ resumed' = IF rules'[id].isActive
                THEN (IF rules[id].isActive THEN resumed ELSE resumed \cup {id})
                ELSE resumed \ {id}
  /\ last' = "put"
  /\ response' = 200
  /\ UNCHANGED <<backend, clock, txns, ret, runs, call, procs, interrupted>>

\* request bodies: suspend, re-activate, change the frequency or its parameter,
\* set or clear the end date, and a body carrying fields the route does not copy
PutBodies ==
  [isActive: BOOLEAN]
  \cup [frequency: Frequencies]
  \cup [endDate: EndDates]
  \cup {[dayOfWeek |-> 3], [dayOfMonth |-> 31], [customDays |-> 2]}
  \cup {[lastGeneratedDate |-> FirstClock, startDate |-> LastClock]}

Create ==
  /\ Len(rules) < MaxRules
  /\ \E date \in StartDates, endDate \in EndDates, p \in RuleParams :
       PostTransaction("ann", TransactionOn(date, NoNotes), endDate, p)

Next ==
  \/ Create
  \/ MemProcessRecurringTransactions
  \/ DbProcessRecurringTransactions

Spec == Init /\ [][Next]_vars

\* the rules created in the specification with edits
EditRuleParams ==
  {p \in RuleParams : /\ p.dayOfWeek \in {Null, 3}
                      /\ p.dayOfMonth \in {Null, 31}
                      /\ p.customDays \in {Null, 2}}

CreateForEdit ==
  /\ Len(rules) < MaxRules
  /\ \E endDate \in EndDates, p \in EditRuleParams :
       PostTransaction("ann", TransactionOn(MkDate(FirstDay, 0), NoNotes), endDate, p)

Put ==
  \E id \in 1..MaxRules, body \in PutBodies : PutRecurringTransaction(id, body)

EditLastClock == MkDate(FirstDay + EditHorizon, TicksPerDay - 1)

MemProcessEarly ==
  /\ backend = "mem" /\ runs < MaxRuns
  /\ \E now \in clock..EditLastClock : ProcessRecurringTransactions("mem", now)

DbProcessEarly ==
  /\ backend = "db" /\ runs < MaxRuns
  /\ \E now \in clock..EditLastClock : ProcessRecurringTransactions("db", now)

NextEdit ==
  \/ CreateForEdit
  \/ Put
  \/ MemProcessEarly
  \/ DbProcessEarly

\* runs interleaved with edits of the rules through the update route
SpecEdit == Init /\ [][NextEdit]_vars

\* recurrence parameters outside their documented ranges, as numbers in the
\* request body
OutOfRangeRuleParams ==
  {[frequency |-> "weekly", dayOfWeek |-> 7, dayOfMonth |-> Null, customDays |-> Null],
   [frequency |-> "monthly", dayOfWeek |-> Null, dayOfMonth |-> 0, customDays |-> Null],
   [frequency |-> "monthly", dayOfWeek |-> Null, dayOfMonth |-> 32, customDays |-> Null],
   [frequency |-> "custom", dayOfWeek |-> Null, dayOfMonth |-> Null, customDays |-> 0]}

\* an end date before every start date
EarlyEndDate == MkDate(FirstDay - 1, 0)

\* POST /transactions with any recurrence parameters and end date
CreateAny ==
  /\ Len(rules) < MaxRules
  /\ \E date \in StartDates, endDate \in EndDates \cup {EarlyEndDate},
        p \in RuleParams \cup OutOfRangeRuleParams :
       PostTransaction("ann", TransactionOn(date, NoNotes), endDate, p)

\* PUT /recurring-transactions/:id with any body
PutAny ==
  \E id \in 1..MaxRules,
     body \in PutBodies \cup {[dayOfWeek |-> 7], [dayOfMonth |-> 32], [customDays |-> 0],
                              [endDate |-> EarlyEndDate]} :
    PutRecurringTransaction(id, body)

NextRequests == CreateAny \/ PutAny

\* the requests that create and edit rules, with arbitrary bodies; no run
SpecRequests == Init /\ [][NextRequests]_vars

(***************************************************************************)
(* DatabaseStorage.processRecurringTransactions step by step.  Every       *)
(* await of the method is a database round trip, so overlapping requests   *)
(* interleave at these points and a failed round trip rejects the whole    *)
(* call: the loop has no try/catch and no database transaction.            *)
(* MemStorage's awaits resolve without I/O, so a MemStorage run completes  *)
(* before any other request is served, and its Map operations cannot fail: *)
(* its run stays one step.                                                 *)
(***************************************************************************)
\* nextDates (after the endDate filter) of the rule the loop of p is at
DbPending(p) ==
  IF procs[p].i <= Len(procs[p].all)
  THEN DbRuleDates(procs[p].all[procs[p].i], procs[p].currentDate)
  ELSE <<>>

\* the select of the rules, then currentDate = new Date()
DbQuery(p, now) ==
  /\ procs[p].pc = "idle"
  /\ procs' = [procs EXCEPT ![p] = [pc |-> "loop", run |-> runs + 1, currentDate |-> now,
                                    all |-> rules, i |-> 1, created |-> 0,
                                    generatedCount |-> 0]]
  /\ clock' = now
  /\ runs' = runs + 1
  /\ last' = "query"
  /\ UNCHANGED <<backend, rules, txns, ret, resumed, call, interrupted, response>>

\* await this.createTransaction(newTransaction); generatedCount++
DbCreateTransaction(p) ==
  /\ procs[p].pc = "loop"
  /\ procs[p].created < Len(DbPending(p))
  /\ txns' = Append(txns, NewTransactions("db", procs[p].i, procs[p].all[procs[p].i],
                                          DbPending(p))[procs[p].created + 1])
  /\ procs' = [procs EXCEPT ![p].created = @ + 1, ![p].generatedCount = @ + 1]
  /\ last' = "step"
  /\ UNCHANGED <<backend, clock, rules, ret, runs, resumed, call, interrupted, response>>

\* a loop body that may update the watermark before the inner loop has finished
DbNextRuleEarly(p) ==
  /\ procs[p].pc = "loop"
  /\ procs[p].i <= Len(procs[p].all)
  /\ procs[p].created <= Len(DbPending(p))
  /\ \E nextDates \in {DbPending(p)} :
       IF Len(nextDates) > 0
       THEN /\ rules' = [rules EXCEPT ![procs[p].i] = UpdateWatermark(@, nextDates)]
            /\ interrupted' = {x \in interrupted : x[1] # procs[p].i}
       ELSE UNCHANGED <<rules, interrupted>>
  /\ procs' = [procs EXCEPT ![p].i = @ + 1, ![p].created = 0]
  /\ last' = "step"
  /\ UNCHANGED <<backend, clock, txns, ret, runs, resumed, call, response>>

\* the end of the loop body: the watermark update when transactions were created
DbNextRule(p) ==
  /\ procs[p].pc = "loop"
  /\ procs[p].i <= Len(procs[p].all)
  /\ procs[p].created = Len(DbPending(p))
  /\ \E nextDates \in {DbPending(p)} :
       IF Len(nextDates) > 0
       THEN /\ rules' = [rules EXCEPT ![procs[p].i] = UpdateWatermark(@, nextDates)]
            /\ interrupted' = {x \in interrupted : x[1] # procs[p].i}
       ELSE UNCHANGED <<rules, interrupted>>
  /\ procs' = [procs EXCEPT ![p].i = @ + 1, ![p].created = 0]
  /\ last' = "step"
  /\ UNCHANGED <<backend, clock, txns, ret, runs, resumed, call, response>>

\* return generatedCount, which the route sends as transactionsGenerated with
\* status 200
DbReturn(p) ==
  /\ procs[p].pc = "loop"
  /\ procs[p].i > Len(procs[p].all)
  /\ ret' = procs[p].generatedCount
  /\ procs' = [procs EXCEPT ![p] = Idle]
  /\ last' = "process"
  /\ response' = 200
  /\ UNCHANGED <<backend, clock, rules, txns, runs, resumed, call, interrupted>>

\* a loop body that catches the rejection and returns the count so far
DbFailsSwallowed(p) ==
  /\ procs[p].pc = "loop"
  /\ Len(DbPending(p)) > 0
  /\ interrupted' = IF procs[p].created > 0 /\ procs[p].created < Len(DbPending(p))
                    THEN interrupted \cup {<<procs[p].i, procs[p].currentDate, runs>>}
                    ELSE interrupted
  /\ procs' = [procs EXCEPT ![p] = Idle]
  /\ last' = "fail"
  /\ ret' = procs[p].generatedCount
  /\ response' = 200
  /\ UNCHANGED <<backend, clock, rules, txns, runs, resumed, call>>

\* the next database round trip of the loop body (an insert, or the watermark
\* update) rejects: the call rejects, the route's catch answers 500
DbFails(p) ==
  /\ procs[p].pc = "loop"
  /\ Len(DbPending(p)) > 0
  /\ interrupted' = IF procs[p].created > 0 /\ procs[p].created < Len(DbPending(p))
                    THEN interrupted \cup {<<procs[p].i, procs[p].currentDate, runs>>}
                    ELSE interrupted
  /\ procs' = [procs EXCEPT ![p] = Idle]
  /\ last' = "fail"
  /\ response' = 500
  /\ UNCHANGED <<backend, clock, rules, txns, ret, runs, resumed, call>>

\* the rules of the specifications with interleaved runs: daily, and every
\* customDays days
StepRuleParams ==
  {p \in RuleParams : p.frequency = "daily"
                        \/ (p.frequency = "custom" /\ p.customDays \in {1, 2})}

\* the rules are created before the first run
CreateForSteps ==
  /\ Len(rules) < MaxStepRules /\ runs = 0
  /\ \E p \in StepRuleParams :
       PostTransaction("ann", TransactionOn(MkDate(FirstDay, 0), NoNotes), Null, p)

StepLastClock == MkDate(FirstDay + StepHorizon, TicksPerDay - 1)

MemProcessStep ==
  /\ backend = "mem" /\ runs < MaxRuns
  /\ \E now \in clock..StepLastClock : ProcessRecurringTransactions("mem", now)

DbStart ==
  /\ backend = "db" /\ runs < MaxRuns
  /\ \E p \in Procs, now \in clock..StepLastClock : DbQuery(p, now)

DbCreate == \E p \in Procs : DbCreateTransaction(p)
DbAdvance == \E p \in Procs : DbNextRule(p)
DbFinish == \E p \in Procs : DbReturn(p)
DbFailure == \E p \in Procs : DbFails(p)

NextSteps ==
  \/ CreateForSteps
  \/ MemProcessStep
  \/ DbStart
  \/ DbCreate
  \/ DbAdvance
  \/ DbFinish

\* failure-free runs; DatabaseStorage runs of overlapping requests interleave
SpecSteps == Init /\ [][NextSteps]_vars

NextFail == NextSteps \/ DbFailure

\* the same with database round trips that may fail
SpecFail == Init /\ [][NextFail]_vars

\* the notes of a request: none, or one word
Notes == {NoNotes, <<"rent">>}

\* POST /transactions with or without notes
CreateWithNotes ==
  /\ Len(rules) < MaxRules
  /\ \E p \in StepRuleParams, notes \in Notes :
       PostTransaction("ann", TransactionOn(MkDate(FirstDay, 0), notes), Null, p)

DbProcessStep ==
  /\ backend = "db" /\ runs < MaxRuns
  /\ \E now \in clock..StepLastClock : ProcessRecurringTransactions("db", now)

NextNotes == CreateWithNotes \/ MemProcessStep \/ DbProcessStep

\* rules with and without notes, and sequential runs
SpecNotes == Init /\ [][NextNotes]_vars

(***************************************************************************)
(* Rules of several users, edited by their owner or by someone else.       *)
(***************************************************************************)
\* a route that lacks the ownership test
PutRequestAnyUser(userId, id, body) ==
  \/ /\ id \notin DOMAIN rules
     /\ response' = 404
     /\ last' = "put"
     /\ UNCHANGED <<backend, clock, rules, txns, ret, runs, resumed, call, procs,
                    interrupted>>
  \/ /\ id \in DOMAIN rules
     /\ PutRecurringTransaction(id, body)

\* PUT /recurring-transactions/:id by userId: 404 for an unknown rule, 403 for a
\* rule of another user, else the update
PutRequest(userId, id, body) ==
  \/ /\ id \notin DOMAIN rules
     /\ response' = 404
     /\ last' = "put"
     /\ UNCHANGED <<backend, clock, rules, txns, ret, runs, resumed, call, procs,
                    interrupted>>
  \/ /\ id \in DOMAIN rules /\ rules[id].userId # userId
     /\ response' = 403
     /\ last' = "put"
     /\ UNCHANGED <<backend, clock, rules, txns, ret, runs, resumed, call, procs,
                    interrupted>>
  \/ /\ id \in DOMAIN rules /\ rules[id].userId = userId
     /\ PutRecurringTransaction(id, body)

\* the transaction fields of two request bodies
TransactionData ==
  {TransactionOn(MkDate(FirstDay, 0), NoNotes),
   [description |-> "gym", amount |-> 30, date |-> MkDate(FirstDay, 0),
    categoryId |-> Null, currency |-> "EUR", notes |-> <<"monthly">>]}

\* the rules of each user are created before the first run
CreateByUser ==
  /\ Len(rules) < MaxStepRules /\ runs = 0
  /\ \E userId \in Users, transactionData \in TransactionData :
       \E p \in {q \in StepRuleParams : q.frequency = "daily"} :
         PostTransaction(userId, transactionData, Null, p)

\* request bodies: suspend the rule, and a body that carries every field of a
\* rule, also those the route does not copy
OwnerPutBodies ==
  {[isActive |-> FALSE]}
  \cup {[id |-> 2, userId |-> "bob", startDate |-> StepLastClock,
         lastGeneratedDate |-> FirstClock, description |-> "gym", amount |-> 30,
         categoryId |-> Null, currency |-> "EUR", notes |-> <<"monthly">>]}

PutByUser ==
  \E userId \in Users, id \in 1..MaxStepRules, body \in OwnerPutBodies :
    PutRequest(userId, id, body)

NextOwners == CreateByUser \/ PutByUser \/ MemProcessStep \/ DbProcessStep

\* rules of two users, edits by either user, and sequential runs
SpecOwners == Init /\ [][NextOwners]_vars

(***************************************************************************)
(* Direct calls of the date helpers, with arbitrary bounds.                *)
(***************************************************************************)
\* every Date from 2024-01-01 to the end of day MaxCalDay
CalDates == 0..MkDate(MaxCalDay, TicksPerDay - 1)

GetMonthlyDates(b, startDate, endDate, dayOfMonth) ==
  IF b = "mem" THEN MemGetMonthlyDates(startDate, endDate, dayOfMonth)
  ELSE DbGetMonthlyDates(startDate, endDate, dayOfMonth)

\* getMonthlyDates(startDate, endDate, dayOfMonth) of backend b
GetMonthlyDatesCall(b, startDate, endDate, dayOfMonth) ==
  /\ call' = [fn |-> "getMonthlyDates", startDate |-> startDate, endDate |-> endDate,
              param |-> dayOfMonth,
              dates |-> GetMonthlyDates(b, startDate, endDate, dayOfMonth)]
  /\ UNCHANGED <<backend, clock, rules, txns, ret, runs, last, resumed, procs, interrupted,
               response>>

MemGetMonthlyDatesCall ==
  /\ backend = "mem" /\ call = <<>>
  /\ \E startDate \in CalDates, dayOfMonth \in 1..31 :
       \E endDate \in startDate..MkDate(MaxCalDay, TicksPerDay - 1) :
         GetMonthlyDatesCall("mem", startDate, endDate, dayOfMonth)

DbGetMonthlyDatesCall ==
  /\ backend = "db" /\ call = <<>>
  /\ \E startDate \in CalDates, dayOfMonth \in 1..31 :
       \E endDate \in startDate..MkDate(MaxCalDay, TicksPerDay - 1) :
         GetMonthlyDatesCall("db", startDate, endDate, dayOfMonth)

NextMonthly == MemGetMonthlyDatesCall \/ DbGetMonthlyDatesCall

\* getMonthlyDates of either backend applied to arbitrary bounds and anchors
SpecMonthly == Init /\ [][NextMonthly]_vars

\* every Date from 2024-01-01 to the end of day MaxHelperDay
HelperDates == 0..MkDate(MaxHelperDay, TicksPerDay - 1)

GetWeeklyDates(b, startDate, endDate, dayOfWeek) ==
  IF b = "mem" THEN MemGetWeeklyDates(startDate, endDate, dayOfWeek)
  ELSE DbGetWeeklyDates(startDate, endDate, dayOfWeek)

\* getWeeklyDates(startDate, endDate, dayOfWeek) of backend b
GetWeeklyDatesCall(b, startDate, endDate, dayOfWeek) ==
  /\ call' = [fn |-> "getWeeklyDates", startDate |-> startDate, endDate |-> endDate,
              param |-> dayOfWeek,
              dates |-> GetWeeklyDates(b, startDate, endDate, dayOfWeek)]
  /\ UNCHANGED <<backend, clock, rules, txns, ret, runs, last, resumed, procs, interrupted,
               response>>

MemGetWeeklyDatesCall ==
  /\ backend = "mem" /\ call = <<>>
  /\ \E startDate \in HelperDates, endDate \in HelperDates, dayOfWeek \in DaysOfWeek :
       GetWeeklyDatesCall("mem", startDate, endDate, dayOfWeek)

DbGetWeeklyDatesCall ==
  /\ backend = "db" /\ call = <<>>
  /\ \E startDate \in HelperDates, endDate \in HelperDates, dayOfWeek \in DaysOfWeek :
       GetWeeklyDatesCall("db", startDate, endDate, dayOfWeek)

NextWeekly == MemGetWeeklyDatesCall \/ DbGetWeeklyDatesCall

\* getWeeklyDates of either backend applied to arbitrary bounds and anchors
SpecWeekly == Init /\ [][NextWeekly]_vars

GetCustomDates(b, startDate, endDate, days) ==
  IF b = "mem" THEN MemGetCustomDates(startDate, endDate, days)
  ELSE DbGetCustomDates(startDate, endDate, days)

\* getCustomDates(startDate, endDate, days) of backend b
GetCustomDatesCall(b, startDate, endDate, days) ==
  /\ call' = [fn |-> "getCustomDates", startDate |-> startDate, endDate |-> endDate,
              param |-> days,
              dates |-> GetCustomDates(b, startDate, endDate, days)]
  /\ UNCHANGED <<backend, clock, rules, txns, ret, runs, last, resumed, procs, interrupted,
               response>>

MemGetCustomDatesCall ==
  /\ backend = "mem" /\ call = <<>>
  /\ \E startDate \in HelperDates, endDate \in HelperDates, days \in 1..MaxInterval :
       GetCustomDatesCall("mem", startDate, endDate, days)

DbGetCustomDatesCall ==
  /\ backend = "db" /\ call = <<>>
  /\ \E startDate \in HelperDates, endDate \in HelperDates, days \in 1..MaxInterval :
       GetCustomDatesCall("db", startDate, endDate, days)

NextCustom == MemGetCustomDatesCall \/ DbGetCustomDatesCall

\* getCustomDates of either backend applied to arbitrary bounds and intervals
SpecCustom == Init /\ [][NextCustom]_vars

(***************************************************************************)
(* The loops of the date helpers, one iteration per step.  The variable    *)
(* call holds the helper invocation in progress: its arguments, the cursor *)
(* (current / currentDate), the dates pushed so far, and where it is:      *)
(* "adjust" is the first loop of DatabaseStorage.getWeeklyDates, "loop"    *)
(* the loop that collects the dates, "done" the return.  The calendar of   *)
(* the model ends with day MaxCalDay: a cursor that would leave it while   *)
(* the loop condition still holds stays in the loop for ever.              *)
(***************************************************************************)
\* the rule needs no helper: skipped, or handled without a loop
NoHelper == [b |-> "none", fn |-> "none", startDate |-> 0, endDate |-> 0, param |-> 0,
             pc |-> "done", current |-> 0, dates |-> <<>>]

\* the state of helper fn of backend b before its first loop test
HelperStart(b, fn, startDate, endDate, param) ==
  [b |-> b, fn |-> fn, startDate |-> startDate, endDate |-> endDate, param |-> param,
   pc |-> IF b = "db" /\ fn = "getWeeklyDates" THEN "adjust" ELSE "loop",
   current |-> CASE fn = "getCustomDates" -> AddDays(startDate, param)
                 [] fn = "getMonthlyDates" ->
                      (IF b = "mem" THEN MemMonthlyFirst(startDate)
                       ELSE DbMonthlyFirst(startDate))
                 [] OTHER -> startDate,
   dates |-> <<>>]

\* MemStorage.processRecurringTransactions: the helper call of the switch for rt
MemHelperCall(rt, now) ==
  LET lastGenDate == LastGenDate(rt) IN
  IF MemSkipsRule(rt) THEN NoHelper
  ELSE CASE rt.frequency = "daily" ->
              HelperStart("mem", "getCustomDates", lastGenDate, now, 1)
         [] rt.frequency = "weekly" ->
              HelperStart("mem", "getWeeklyDates", lastGenDate, now,
                          IF Truthy(rt.dayOfWeek) THEN rt.dayOfWeek ELSE 1)
         [] rt.frequency = "monthly" ->
              HelperStart("mem", "getMonthlyDates", lastGenDate, now,
                          IF Truthy(rt.dayOfMonth) THEN rt.dayOfMonth ELSE 1)
         [] rt.frequency = "custom" ->
              IF Truthy(rt.customDays)
              THEN HelperStart("mem", "getCustomDates", lastGenDate, now, rt.customDays)
              ELSE NoHelper
         [] OTHER -> NoHelper

\* DatabaseStorage.processRecurringTransactions: the helper call of the switch
DbHelperCall(recurTrans, currentDate) ==
  LET lastGenDate == LastGenDate(recurTrans) IN
  IF ~DbSelectsRule(recurTrans) THEN NoHelper
  ELSE CASE recurTrans.frequency = "weekly" ->
              IF getDaysDifference(lastGenDate, currentDate) < 7 THEN NoHelper
              ELSE HelperStart("db", "getWeeklyDates", lastGenDate, currentDate,
                               IF recurTrans.dayOfWeek # Null THEN recurTrans.dayOfWeek
                               ELSE getDay(lastGenDate))
         [] recurTrans.frequency = "monthly" ->
              IF getMonth(lastGenDate) = getMonth(currentDate) THEN NoHelper
              ELSE HelperStart("db", "getMonthlyDates", lastGenDate, currentDate,
                               IF Truthy(recurTrans.dayOfMonth) THEN recurTrans.dayOfMonth
                               ELSE getDate(lastGenDate))
         [] recurTrans.frequency = "custom" ->
              IF ~Truthy(recurTrans.customDays) THEN NoHelper
              ELSE IF getDaysDifference(lastGenDate, currentDate) < recurTrans.customDays
                   THEN NoHelper
                   ELSE HelperStart("db", "getCustomDates", lastGenDate, currentDate,
                                    recurTrans.customDays)
         [] OTHER -> NoHelper

\* the condition of the while loop the call is in
LoopCondition(c) ==
  IF c.pc = "adjust" THEN getDay(c.current) # c.param ELSE c.current <= c.endDate

\* a getCustomDates iteration that pushes nothing and leaves the cursor in place
CustomBodyNoAdvance(c) == c

\* one iteration of getCustomDates (either backend): push, then add the interval
CustomBody(c) ==
  [c EXCEPT !.dates = Append(@, c.current), !.current = AddDays(@, c.param)]

\* one iteration of the loop the call is in
LoopBody(c) ==
  CASE c.pc = "adjust" -> [c EXCEPT !.current = AddDays(@, 1)]
    [] c.pc = "loop" /\ c.fn = "getCustomDates" -> CustomBody(c)
    [] c.pc = "loop" /\ c.fn = "getWeeklyDates" /\ c.b = "mem" ->
         [c EXCEPT !.dates = IF getDay(c.current) = c.param /\ c.current > c.startDate
                             THEN Append(@, c.current) ELSE @,
                   !.current = AddDays(@, 1)]
    [] c.pc = "loop" /\ c.fn = "getWeeklyDates" /\ c.b = "db" ->
         [c EXCEPT !.dates = Append(@, c.current), !.current = AddDays(@, 7)]
    [] c.pc = "loop" /\ c.fn = "getMonthlyDates" /\ c.b = "mem" ->
         [c EXCEPT !.dates = @ \o MemMonthlyTarget(c.current, c.startDate, c.endDate, c.param),
                   !.current = MemMonthlyAdvance(@)]
    [] c.pc = "loop" /\ c.fn = "getMonthlyDates" /\ c.b = "db" ->
         [c EXCEPT !.dates = @ \o DbMonthlyOccurrence(c.current, c.startDate, c.endDate,
                                                      c.param),
                   !.current = SetMonthNext(@)]

\* the code after the loop: the week's advance after the adjust loop, or the return
LoopEnd(c) ==
  IF c.pc = "adjust"
  THEN [c EXCEPT !.pc = "loop",
                 !.current = IF @ < c.startDate THEN AddDays(@, 7) ELSE @]
  ELSE [c EXCEPT !.pc = "done"]

\* a Date of the model's calendar
InCalendar(t) == Day(t) \in 0..MaxCalDay

LoopLastClock == MkDate(FirstDay + LoopHorizon, TicksPerDay - 1)

\* a run reaches rule id and enters the helper its switch selects
EnterHelper(b, id, now) ==
  /\ call' = (IF b = "mem" THEN MemHelperCall(rules[id], now)
              ELSE DbHelperCall(rules[id], now))
  /\ clock' = now
  /\ UNCHANGED <<backend, rules, txns, ret, runs, last, resumed, procs, interrupted, response>>

MemEnter ==
  /\ backend = "mem" /\ call = <<>>
  /\ \E id \in DOMAIN rules, now \in clock..LoopLastClock : EnterHelper("mem", id, now)

DbEnter ==
  /\ backend = "db" /\ call = <<>>
  /\ \E id \in DOMAIN rules, now \in clock..LoopLastClock : EnterHelper("db", id, now)

LoopIterate ==
  /\ call # <<>> /\ call.pc # "done"
  /\ LoopCondition(call)
  /\ InCalendar(LoopBody(call).current)
  /\ call' = LoopBody(call)
  /\ UNCHANGED <<backend, clock, rules, txns, ret, runs, last, resumed, procs, interrupted,
               response>>

LoopExit ==
  /\ call # <<>> /\ call.pc # "done"
  /\ ~LoopCondition(call)
  /\ call' = LoopEnd(call)
  /\ UNCHANGED <<backend, clock, rules, txns, ret, runs, last, resumed, procs, interrupted,
               response>>

\* rules with valid parameters, set or unset
CreateForLoops ==
  /\ Len(rules) < MaxRules /\ call = <<>>
  /\ \E date \in StartDates, p \in RuleParams :
       PostTransaction("ann", TransactionOn(date, NoNotes), Null, p)

NextLoops == CreateForLoops \/ MemEnter \/ DbEnter \/ LoopIterate \/ LoopExit

\* a running loop keeps running: its next iteration or its exit is taken
LoopFairness == WF_vars(LoopIterate) /\ WF_vars(LoopExit)

\* the helper loops of a run over rules with valid parameters
SpecLoops == Init /\ [][NextLoops]_vars /\ LoopFairness

\* a custom rule with a negative interval
NegativeIntervalRuleParams ==
  {[frequency |-> "custom", dayOfWeek |-> Null, dayOfMonth |-> Null, customDays |-> -2]}

\* POST /transactions with any recurrence parameters
CreateAnyForLoops ==
  /\ Len(rules) < MaxRules /\ call = <<>>
  /\ \E p \in RuleParams \cup OutOfRangeRuleParams \cup NegativeIntervalRuleParams :
       PostTransaction("ann", TransactionOn(MkDate(FirstDay, 0), NoNotes), Null, p)

\* PUT /recurring-transactions/:id with any body, before the run
PutAnyForLoops == call = <<>> /\ PutAny

NextLoopsAny ==
  CreateAnyForLoops \/ PutAnyForLoops \/ MemEnter \/ DbEnter \/ LoopIterate \/ LoopExit

\* the helper loops of a run over any rules the routes store
SpecLoopsAny == Init /\ [][NextLoopsAny]_vars /\ LoopFairness

(***************************************************************************)
(* Vocabulary of the claims.                                               *)
(***************************************************************************)
\* the transactions materialized for rule id, and their calendar days
TxnsOf(ts, id) == {j \in DOMAIN ts : ts[j].rule = id}
DaysOf(ts, id) == {Day(ts[j].date) : j \in TxnsOf(ts, id)}
SeqDays(dates) == {Day(dates[j]) : j \in DOMAIN dates}

\* the transactions a step adds
Added == (Len(txns) + 1)..Len(txns')
\* a step that is one processRecurringTransactions run
IsRun == runs' = runs + 1

\* the recurrence parameter of the rule's own frequency is in its documented range
IsValidRule(rt) ==
  /\ rt.frequency = "weekly" => rt.dayOfWeek \in 0..6
  /\ rt.frequency = "monthly" => rt.dayOfMonth \in 1..31
  /\ rt.frequency = "custom" => rt.customDays # Null /\ rt.customDays >= 1

\* day d matches the rule's frequency; a custom rule counts its interval from day origin
IsDue(rt, origin, d) ==
  CASE rt.frequency = "daily" -> TRUE
    [] rt.frequency = "weekly" -> (d + 1) % 7 = rt.dayOfWeek
    [] rt.frequency = "monthly" ->
         d - MonthStart(MonthOfDay[d]) + 1 = Min(rt.dayOfMonth, DaysInMonth(MonthOfDay[d]))
    [] rt.frequency = "custom" -> (d - origin) % rt.customDays = 0

\* min(asOf, rule.endDate)
UpperBound(rt, asOf) == IF rt.endDate = Null THEN asOf ELSE Min(asOf, rt.endDate)

\* the days after day lower that have wholly elapsed at min(asOf, endDate): a due
\* date is asked of a run only then, so that no time of day decides a claim
ElapsedDays(rt, lower, asOf) ==
  {d \in (lower + 1)..Day(UpperBound(rt, asOf)) :
     MkDate(d, TicksPerDay - 1) <= UpperBound(rt, asOf)}

(***************************************************************************)
(* C1: over sequential runs at non-decreasing run dates, in either         *)
(* backend, no rule has two materialized transactions with the same        *)
(* calendar date.                                                          *)
(***************************************************************************)
NoDoubleGeneration ==
  \A i, j \in DOMAIN txns :
    (i < j /\ txns[i].rule # 0 /\ txns[i].rule = txns[j].rule)
      => Day(txns[i].date) # Day(txns[j].date)

(***************************************************************************)
(* C2: for a valid, active, unedited rule, once a run at asOf has          *)
(* completed, every date d with startDate < d <= min(asOf, endDate) that   *)
(* matches the rule's frequency has a materialized transaction, whatever   *)
(* the dates of the earlier runs were.                                     *)
(***************************************************************************)
AllDueMaterialized ==
  last = "process" =>
    \A id \in DOMAIN rules :
      IsValidRule(rules[id]) =>
        \A d \in ElapsedDays(rules[id], Day(rules[id].startDate), clock) :
          IsDue(rules[id], Day(rules[id].startDate), d) => d \in DaysOf(txns, id)

(***************************************************************************)
(* C3: catch-up completeness: after runs at asOf_1 < ... < asOf_n the      *)
(* dates materialized for a valid rule are exactly those one run at asOf_n *)
(* materializes from the same initial state (no watermark yet).            *)
(***************************************************************************)
CatchUpComplete ==
  last = "process" =>
    \A id \in DOMAIN rules :
      IsValidRule(rules[id]) =>
        DaysOf(txns, id) =
          SeqDays(RuleDates(backend, [rules[id] EXCEPT !.lastGeneratedDate = Null], clock))

(***************************************************************************)
(* C4: idempotence: a run directly after a run, at the same run date and   *)
(* with no rule edited in between, creates no transaction, returns 0 and   *)
(* changes no rule's lastGeneratedDate.                                    *)
(***************************************************************************)
SecondRunIsNoOp ==
  [][(last = "process" /\ IsRun /\ clock' = clock)
       => (ret' = 0 /\ txns' = txns /\ rules' = rules)]_vars

(***************************************************************************)
(* C5: every transaction a run at asOf materializes is dated on or before  *)
(* min(asOf, rule.endDate).                                                *)
(***************************************************************************)
DatedWithinBounds ==
  [][\A j \in Added :
       txns'[j].rule # 0 =>
         /\ txns'[j].date <= clock'
         /\ rules[txns'[j].rule].endDate # Null
              => txns'[j].date <= rules[txns'[j].rule].endDate]_vars

\* a run after the rule's end date has materialized the rule's transactions
DatedWithinBoundsWitness ==
  /\ last = "process" /\ ret > 0
  /\ \E id \in DOMAIN rules :
       /\ rules[id].endDate # Null /\ Day(clock) > Day(rules[id].endDate)
       /\ Day(rules[id].endDate) \in DaysOf(txns, id)

(***************************************************************************)
(* C6: no transaction materialized for a rule is dated on or before that   *)
(* rule's startDate.                                                       *)
(***************************************************************************)
StrictlyAfterStart ==
  \A j \in DOMAIN txns :
    txns[j].rule # 0 => Day(txns[j].date) > Day(rules[txns[j].rule].startDate)

(***************************************************************************)
(* C7: watermark invariant: a rule's lastGeneratedDate, once set, is the   *)
(* date of a transaction materialized for that rule, and no run and no     *)
(* edit through the update route ever decreases or unsets it.              *)
(***************************************************************************)
WatermarkInvariant ==
  [][\A id \in DOMAIN rules' :
       /\ rules'[id].lastGeneratedDate # Null
            => \E j \in TxnsOf(txns', id) : txns'[j].date = rules'[id].lastGeneratedDate
       /\ (id \in DOMAIN rules /\ rules[id].lastGeneratedDate # Null)
            => /\ rules'[id].lastGeneratedDate # Null
               /\ rules'[id].lastGeneratedDate >= rules[id].lastGeneratedDate]_vars

\* two runs have set and then advanced a watermark, and an edit has followed
WatermarkInvariantWitness ==
  /\ last = "put" /\ runs = 2
  /\ \E id \in DOMAIN rules :
       /\ rules[id].lastGeneratedDate # Null
       /\ \E j \in TxnsOf(txns, id) : txns[j].date < rules[id].lastGeneratedDate

(***************************************************************************)
(* C8: a run creates no transaction for a rule whose isActive is false and *)
(* leaves all the fields of that rule unchanged.                           *)
(***************************************************************************)
InactiveUntouched ==
  [][IsRun =>
       \A id \in DOMAIN rules :
         ~rules[id].isActive =>
           /\ rules'[id] = rules[id]
           /\ \A j \in Added : txns'[j].rule # id]_vars

\* a run has passed over a suspended rule that would have been due if active
InactiveUntouchedWitness ==
  /\ last = "process"
  /\ \E id \in DOMAIN rules :
       /\ ~rules[id].isActive
       /\ RuleDates(backend, [rules[id] EXCEPT !.isActive = TRUE], clock) # <<>>

(***************************************************************************)
(* C9: suspension and reactivation: the first run after a rule with a      *)
(* watermark was set inactive and then active again materializes every due *)
(* date in (lastGeneratedDate, asOf] and creates no transaction dated on   *)
(* or before lastGeneratedDate.                                            *)
(***************************************************************************)
ResumesWhereItLeftOff ==
  [][IsRun =>
       \A id \in resumed :
         (IsValidRule(rules[id]) /\ rules[id].lastGeneratedDate # Null) =>
           /\ \A d \in ElapsedDays(rules[id], Day(LastGenDate(rules[id])), clock') :
                IsDue(rules[id], Day(LastGenDate(rules[id])), d) => d \in DaysOf(txns', id)
           /\ \A j \in Added :
                txns'[j].rule = id => Day(txns'[j].date) > Day(LastGenDate(rules[id]))]_vars

(***************************************************************************)
(* C10: monthly clamping: for calendar dates lower <= upper (no time of    *)
(* day) and anchor a in 1..31, getMonthlyDates(lower, upper, a) returns,   *)
(* in ascending order, exactly the dates in (lower, upper] that are the    *)
(* target day min(a, days in the month) of their month; no month is        *)
(* skipped.                                                                *)
(***************************************************************************)
RECURSIVE MonthlyTargetsFrom(_, _, _, _)
\* the target days of the months M, M + 1, ... that lie in (lowerDay, upperDay]
MonthlyTargetsFrom(M, lowerDay, upperDay, a) ==
  IF MonthStart(M) > upperDay THEN <<>>
  ELSE LET target == MonthStart(M) + Min(a, DaysInMonth(M)) - 1
       IN (IF target > lowerDay /\ target <= upperDay THEN <<target>> ELSE <<>>)
            \o MonthlyTargetsFrom(M + 1, lowerDay, upperDay, a)

MonthlyClamping ==
  (/\ call # <<>> /\ call.fn = "getMonthlyDates"
   /\ Tod(call.startDate) = 0 /\ Tod(call.endDate) = 0) =>
    [j \in DOMAIN call.dates |-> Day(call.dates[j])]
      = MonthlyTargetsFrom(getMonth(call.startDate), Day(call.startDate),
                           Day(call.endDate), call.param)

(***************************************************************************)
(* C11: weekly anchor: for calendar dates lower, upper (no time of day)    *)
(* and w in 0..6, getWeeklyDates(lower, upper, w) returns, in ascending    *)
(* order, exactly the dates d with lower < d <= upper whose day of week is *)
(* w; lower itself is never returned and the result is empty when          *)
(* lower > upper.                                                          *)
(***************************************************************************)
RECURSIVE WeeklyTargetsFrom(_, _, _)
\* the days d, d + 1, ... up to upperDay that fall on day of week w
WeeklyTargetsFrom(d, upperDay, w) ==
  IF d > upperDay THEN <<>>
  ELSE (IF (d + 1) % 7 = w THEN <<d>> ELSE <<>>) \o WeeklyTargetsFrom(d + 1, upperDay, w)

WeeklyAnchor ==
  (/\ call # <<>> /\ call.fn = "getWeeklyDates"
   /\ Tod(call.startDate) = 0 /\ Tod(call.endDate) = 0) =>
    [j \in DOMAIN call.dates |-> Day(call.dates[j])]
      = WeeklyTargetsFrom(Day(call.startDate) + 1, Day(call.endDate), call.param)

(***************************************************************************)
(* C12: custom interval: for n >= 1, getCustomDates(lower, upper, n)       *)
(* returns exactly lower + n days, lower + 2n days, ... in ascending order *)
(* up to the largest term <= upper; upper is included when it lies on the  *)
(* sequence and lower never is.                                            *)
(***************************************************************************)
CustomInterval ==
  (call # <<>> /\ call.fn = "getCustomDates") =>
    /\ \A k \in DOMAIN call.dates : call.dates[k] = AddDays(call.startDate, k * call.param)
    /\ AddDays(call.startDate, (Len(call.dates) + 1) * call.param) > call.endDate
    /\ \A k \in DOMAIN call.dates : call.dates[k] <= call.endDate

\* a call whose upper bound lies on the sequence: three terms, the last one is upper
CustomIntervalWitness ==
  /\ call # <<>> /\ call.fn = "getCustomDates"
  /\ call.param = MaxInterval
  /\ Len(call.dates) = 3
  /\ call.dates[3] = call.endDate

(***************************************************************************)
(* C13: daily catch-up: one run at asOf materializes, for an active daily  *)
(* rule, a transaction for every day after (lastGeneratedDate, or          *)
(* startDate when unset) through min(asOf, endDate), however many days     *)
(* have passed since the previous run.                                     *)
(***************************************************************************)
DailyCatchUp ==
  [][IsRun =>
       \A id \in DOMAIN rules :
         (rules[id].isActive /\ rules[id].frequency = "daily") =>
           \A d \in ElapsedDays(rules[id], Day(LastGenDate(rules[id])), clock') :
             \E j \in Added : txns'[j].rule = id /\ Day(txns'[j].date) = d]_vars

(***************************************************************************)
(* C14: no duplication across restarts: after a run was interrupted having *)
(* persisted some but not all due transactions of a rule and before the    *)
(* rule's lastGeneratedDate advanced, a re-run at the same run date        *)
(* creates no second transaction for a date already persisted.             *)
(***************************************************************************)
NoDuplicateOnRetry ==
  [][\A p \in Procs :
       (/\ procs[p].pc = "loop"
        /\ procs'[p].created = procs[p].created + 1
        /\ \E x \in interrupted : /\ x[1] = procs[p].i
                                  /\ x[2] = procs[p].currentDate
                                  /\ x[3] < procs[p].run
        /\ \A q \in Procs \ {p} : procs[q].pc = "idle")
         => ~ \E j \in TxnsOf(txns, procs[p].i) :
                Day(txns[j].date) = Day(txns'[Len(txns')].date)]_vars

(***************************************************************************)
(* C15: cross-rule failure independence: when a run fails while creating a *)
(* transaction or updating the watermark of one rule, every other active   *)
(* rule that is due is still processed in that same run.                   *)
(***************************************************************************)
OtherRulesStillProcessed ==
  [][\A p \in Procs :
       (procs[p].pc = "loop" /\ procs'[p].pc = "idle" /\ last' = "fail") =>
         \A r \in DOMAIN procs[p].all :
           (r # procs[p].i /\ DbRuleDates(procs[p].all[r], procs[p].currentDate) # <<>>)
             => r < procs[p].i]_vars

(***************************************************************************)
(* C16: per-rule processing is serialized: after overlapping requests to   *)
(* the process endpoint have all finished, each (rule, date) has at most   *)
(* one transaction and each rule's watermark is the maximum materialized   *)
(* date.                                                                   *)
(***************************************************************************)
SerializedPerRule ==
  (\A p \in Procs : procs[p].pc = "idle") =>
    \A id \in DOMAIN rules :
      /\ \A j, k \in TxnsOf(txns, id) : j # k => Day(txns[j].date) # Day(txns[k].date)
      /\ \A j \in TxnsOf(txns, id) : txns[j].date <= rules[id].lastGeneratedDate
      /\ TxnsOf(txns, id) # {}
           => \E j \in TxnsOf(txns, id) : txns[j].date = rules[id].lastGeneratedDate

(***************************************************************************)
(* C17: rule validation: no request stores or leaves a rule whose weekly   *)
(* dayOfWeek is outside 0..6, whose monthly dayOfMonth is outside 1..31,   *)
(* whose custom customDays is below 1, or whose endDate is earlier than    *)
(* its startDate.                                                          *)
(***************************************************************************)
RuleValidation ==
  \A id \in DOMAIN rules :
    /\ (rules[id].frequency = "weekly" /\ rules[id].dayOfWeek # Null)
         => rules[id].dayOfWeek \in 0..6
    /\ (rules[id].frequency = "monthly" /\ rules[id].dayOfMonth # Null)
         => rules[id].dayOfMonth \in 1..31
    /\ (rules[id].frequency = "custom" /\ rules[id].customDays # Null)
         => rules[id].customDays >= 1
    /\ rules[id].endDate # Null => rules[id].endDate >= rules[id].startDate

(***************************************************************************)
(* C18: the number a successful run returns is the number of transactions  *)
(* that run added to the store, summed over all rules: a MemStorage run    *)
(* returns the growth of the store; a DatabaseStorage run starts counting  *)
(* at 0, counts one per transaction it inserts and returns that count.     *)
(***************************************************************************)
ReturnsCreatedCount ==
  [][/\ (backend = "mem" /\ IsRun) => ret' = Len(txns') - Len(txns)
     /\ \A p \in Procs :
          /\ (procs[p].pc = "idle" /\ procs'[p].pc = "loop")
               => (procs'[p].generatedCount = 0 /\ txns' = txns)
          /\ (procs[p].pc = "loop" /\ procs'[p].pc = "loop")
               => procs'[p].generatedCount - procs[p].generatedCount
                    = (IF procs'[p] = procs[p] THEN 0 ELSE Len(txns') - Len(txns))
          /\ (procs[p].pc = "loop" /\ procs'[p].pc = "idle")
               => (ret' = procs[p].generatedCount /\ txns' = txns)]_vars

\* one run has returned a count summed over two rules with several transactions
ReturnsCreatedCountWitness ==
  /\ last = "process" /\ runs = 1 /\ Len(rules) = 2
  /\ \A id \in DOMAIN rules : Cardinality(TxnsOf(txns, id)) >= 1
  /\ ret >= 3
  /\ ret = Cardinality({j \in DOMAIN txns : txns[j].rule # 0})

(***************************************************************************)
(* C19: backend equivalence: from the same valid rules and the same run    *)
(* date, a MemStorage run and a DatabaseStorage run create transactions on *)
(* the same days for each rule, return the same count and leave the same   *)
(* lastGeneratedDate day on every rule.                                    *)
(***************************************************************************)
BackendEquivalence ==
  [][(IsRun /\ runs = 0 /\ \A id \in DOMAIN rules : IsValidRule(rules[id])) =>
       \E m \in {Run("mem", rules, txns, clock')}, d \in {Run("db", rules, txns, clock')} :
         /\ m.count = d.count
         /\ \A id \in DOMAIN rules :
              /\ DaysOf(m.txns, id) = DaysOf(d.txns, id)
              /\ (m.rules[id].lastGeneratedDate = Null) = (d.rules[id].lastGeneratedDate = Null)
              /\ m.rules[id].lastGeneratedDate # Null
                   => Day(m.rules[id].lastGeneratedDate) = Day(d.rules[id].lastGeneratedDate)]_vars

(***************************************************************************)
(* C20: every transaction a run creates carries notes tagged as recurring: *)
(* the rule's notes followed by the recurring marker, or the marker alone  *)
(* when the rule has no notes.                                             *)
(***************************************************************************)
NotesTagged ==
  \A j \in DOMAIN txns :
    txns[j].rule # 0 =>
      txns[j].notes = rules[txns[j].rule].notes \o <<RecurringMarker>>

(***************************************************************************)
(* C21: a run changes a rule's lastGeneratedDate only if it created at     *)
(* least one transaction for that rule, and then sets it to the maximum    *)
(* date among the transactions it created for that rule; a rule with       *)
(* nothing due keeps its lastGeneratedDate, set or unset.                  *)
(***************************************************************************)
WatermarkFollowsCreation ==
  [][IsRun =>
       \A id \in DOMAIN rules :
         IF \E j \in Added : txns'[j].rule = id
         THEN /\ \E j \in Added : /\ txns'[j].rule = id
                                  /\ txns'[j].date = rules'[id].lastGeneratedDate
              /\ \A j \in Added :
                   txns'[j].rule = id => txns'[j].date <= rules'[id].lastGeneratedDate
         ELSE rules'[id].lastGeneratedDate = rules[id].lastGeneratedDate]_vars

\* a first run has created several transactions of a rule and set its watermark,
\* and a second run with nothing due has left it in place
WatermarkFollowsCreationWitness ==
  /\ last = "process" /\ runs = 2 /\ ret = 0
  /\ \E id \in DOMAIN rules :
       /\ Cardinality(TxnsOf(txns, id)) >= 2
       /\ \E j \in TxnsOf(txns, id) : txns[j].date = rules[id].lastGeneratedDate

(***************************************************************************)
(* C22: within one run the storage writes for one rule are ordered: its    *)
(* transactions are created in strictly ascending date order and the       *)
(* lastGeneratedDate update comes only after the last of them, so that in  *)
(* every intermediate state of the run, also one left by a failure midway, *)
(* every date the run generated that is <= the stored lastGeneratedDate    *)
(* already has its transaction.                                            *)
(***************************************************************************)
WritesOrdered ==
  [][/\ \A p \in Procs :
          /\ (procs[p].pc = "loop" /\ procs'[p].created = procs[p].created + 1)
               => /\ txns'[Len(txns')].rule = procs[p].i
                  /\ \A k \in 1..procs[p].created :
                       DbPending(p)[k] < txns'[Len(txns')].date
          /\ (procs[p].pc = "loop" /\ procs'[p].i = procs[p].i + 1 /\ rules' # rules)
               => /\ procs[p].created = Len(DbPending(p))
                  /\ \A k \in DOMAIN DbPending(p) :
                       \E j \in TxnsOf(txns, procs[p].i) : txns[j].date = DbPending(p)[k]
     /\ (backend = "mem" /\ IsRun)
          => \A j, k \in Added :
               (j < k /\ txns'[j].rule = txns'[k].rule) => txns'[j].date < txns'[k].date
     /\ runs' = 1
          => \A id \in DOMAIN rules' :
               \A d \in {RuleDates(backend, [rules'[id] EXCEPT !.lastGeneratedDate = Null],
                                   clock')} :
                 \A k \in DOMAIN d :
                   (rules'[id].lastGeneratedDate # Null
                      /\ d[k] <= rules'[id].lastGeneratedDate)
                     => \E j \in TxnsOf(txns', id) : txns'[j].date = d[k]]_vars

\* the only run so far failed after creating some but not all transactions of a rule
WritesOrderedWitness ==
  /\ last = "fail" /\ runs = 1
  /\ \E x \in interrupted :
       /\ rules[x[1]].lastGeneratedDate = Null
       /\ TxnsOf(txns, x[1]) # {}

(***************************************************************************)
(* C23: exhaustion is permanent: for a rule with an endDate, once a run at *)
(* a date >= endDate has completed, every later run, at any later date,    *)
(* creates no transaction for that rule and leaves its lastGeneratedDate   *)
(* unchanged.                                                              *)
(***************************************************************************)
ExhaustionPermanent ==
  [][(last = "process" /\ IsRun) =>
       \A id \in DOMAIN rules :
         (/\ IsValidRule(rules[id])
          /\ rules[id].endDate # Null /\ clock >= rules[id].endDate)
           => /\ rules'[id].lastGeneratedDate = rules[id].lastGeneratedDate
              /\ \A j \in Added : txns'[j].rule # id]_vars

(***************************************************************************)
(* C24: for every weekly rule and every dayOfWeek d in 0..6, Sunday (0)    *)
(* included, each transaction materialized for the rule is dated on a day  *)
(* whose day of week is d.                                                 *)
(***************************************************************************)
WeeklyOnDayOfWeek ==
  \A j \in DOMAIN txns :
    (/\ txns[j].rule # 0
     /\ rules[txns[j].rule].frequency = "weekly"
     /\ rules[txns[j].rule].dayOfWeek \in 0..6)
      => getDay(txns[j].date) = rules[txns[j].rule].dayOfWeek

(***************************************************************************)
(* C25: day granularity: the calendar dates a run materializes and the     *)
(* watermark day it sets depend only on the calendar days of startDate,    *)
(* lastGeneratedDate, endDate and the run time: an execution whose inputs  *)
(* differ from the run's only in their times of day materializes the same  *)
(* calendar dates and sets the same watermark day.                         *)
(***************************************************************************)
TimesOfDay == 0..(TicksPerDay - 1)
\* the same calendar day at time of day tod; an unset date stays unset
AtTime(t, tod) == IF t = Null THEN Null ELSE MkDate(Day(t), tod)
DayOrNull(t) == IF t = Null THEN Null ELSE Day(t)

DayGranularity ==
  [][IsRun =>
       \A id \in DOMAIN rules :
         IsValidRule(rules[id]) =>
           \A s, l, e, n \in TimesOfDay :
             \A dates \in {RuleDates(backend,
                                     [rules[id] EXCEPT !.startDate = AtTime(@, s),
                                                       !.lastGeneratedDate = AtTime(@, l),
                                                       !.endDate = AtTime(@, e)],
                                     AtTime(clock', n))} :
               /\ SeqDays(dates) = {Day(txns'[j].date) : j \in {k \in Added : txns'[k].rule = id}}
               /\ DayOrNull(rules'[id].lastGeneratedDate)
                    = (IF dates = <<>> THEN DayOrNull(rules[id].lastGeneratedDate)
                       ELSE Day(MaxOf(dates)))]_vars

ExitAhead(c) ==
  c.pc = "adjust" => \E d \in 0..6 : getDay(AddDays(c.current, d)) = c.param

StoredRulesTerminate ==
  [][(call' # <<>> /\ call' # call) =>
       /\ ExitAhead(call')
       /\ (call # <<>> /\ call'.pc = call.pc) => call'.current > call.current]_vars

(***************************************************************************)
(* C27: a storage failure while creating a transaction or updating a       *)
(* watermark is never swallowed: the call ends before it has gone through  *)
(* all the rules, returns no count, and the process endpoint answers with  *)
(* a status outside 2xx; a 2xx answer is given only by a call that went    *)
(* through all the rules.                                                  *)
(***************************************************************************)
FailureSurfaces ==
  [][\A p \in Procs :
       (procs[p].pc = "loop" /\ procs'[p].pc = "idle") =>
         IF procs[p].i <= Len(procs[p].all)
         THEN ret' = ret /\ response' \notin 200..299
         ELSE ret' = procs[p].generatedCount /\ response' = 200]_vars

\* a run has failed after inserting a transaction, and the endpoint answered 500
FailureSurfacesWitness ==
  /\ last = "fail" /\ response = 500
  /\ \E x \in interrupted : TxnsOf(txns, x[1]) # {}
  /\ \A p \in Procs : procs[p].pc = "idle"

(***************************************************************************)
(* C28: updating a rule through PUT /recurring-transactions/:id never      *)
(* changes its lastGeneratedDate, startDate, id or userId, whatever the    *)
(* request body contains: only description, amount, categoryId, currency,  *)
(* notes, isIncome, frequency, endDate, dayOfWeek, dayOfMonth, customDays  *)
(* and isActive can change, and a request by a user who does not own the   *)
(* rule changes nothing.                                                   *)
(***************************************************************************)
\* the fields the update route may change
Updatable ==
  {"description", "amount", "categoryId", "currency", "notes", "isIncome", "frequency",
   "endDate", "dayOfWeek", "dayOfMonth", "customDays", "isActive"}

PutFrame ==
  [][\A userId \in Users, id \in 1..MaxStepRules, body \in OwnerPutBodies :
       PutRequest(userId, id, body) =>
         /\ txns' = txns
         /\ DOMAIN rules' = DOMAIN rules
         /\ \A r \in DOMAIN rules : r # id => rules'[r] = rules[r]
         /\ id \in DOMAIN rules =>
              /\ DOMAIN rules'[id] = DOMAIN rules[id]
              /\ rules'[id].lastGeneratedDate = rules[id].lastGeneratedDate
              /\ rules'[id].startDate = rules[id].startDate
              /\ rules'[id].userId = rules[id].userId
              /\ \A f \in DOMAIN rules[id] \ Updatable : rules'[id][f] = rules[id][f]
              /\ rules[id].userId # userId => rules'[id] = rules[id]]_vars

\* after a run, the owner has sent a body carrying every field, and then a request
\* for a rule of another user was refused
PutFrameWitness ==
  /\ last = "put" /\ response = 403
  /\ \E id \in DOMAIN rules :
       /\ rules[id].lastGeneratedDate # Null
       /\ rules[id].description = "gym"
       /\ \E j \in TxnsOf(txns, id) : txns[j].description = "rent"

(***************************************************************************)
(* C29: append-only: a run never modifies or deletes a transaction that    *)
(* existed before it and changes no field of any rule other than           *)
(* lastGeneratedDate; each transaction it adds copies userId, description, *)
(* amount, currency and categoryId from its rule.                          *)
(***************************************************************************)
AppendOnly ==
  [][IsRun =>
       /\ Len(txns') >= Len(txns)
       /\ \A j \in DOMAIN txns : txns'[j] = txns[j]
       /\ DOMAIN rules' = DOMAIN rules
       /\ \A id \in DOMAIN rules :
            [rules'[id] EXCEPT !.lastGeneratedDate = rules[id].lastGeneratedDate] = rules[id]
       /\ \A j \in Added :
            /\ txns'[j].rule \in DOMAIN rules
            /\ \A f \in {"userId", "description", "amount", "currency", "categoryId"} :
                 txns'[j][f] = rules[txns'[j].rule][f]]_vars

\* one run has created transactions for rules of two users with different fields
AppendOnlyWitness ==
  /\ last = "process"
  /\ \E j, k \in DOMAIN txns :
       /\ txns[j].rule # 0 /\ txns[k].rule # 0
       /\ txns[j].userId # txns[k].userId
       /\ txns[j].description # txns[k].description
       /\ txns[j].categoryId # txns[k].categoryId

====
